---- MODULE Spec2Model ----
(***************************************************************************)
(* Model of monta/models.py: the decoders (from_dict), the encoders        *)
(* (to_dict) and the timestamp normaliser (_parse_datetime).               *)
(*                                                                         *)
(* Python values are tagged records, so that values of different Python    *)
(* types can be compared:                                                  *)
(*   None  [t |-> "null"]            str   [t |-> "str",  s |-> tokens]    *)
(*   int/float [t |-> "num", n |-> i] bool [t |-> "bool", b |-> TRUE]      *)
(*   list  [t |-> "list", l |-> seq] dict  [t |-> "map",  m |-> function]  *)
(*   datetime [t |-> "dt", wall, aware, off]                               *)
(* and a dataclass instance is a record whose t is the class name.         *)
(* A string is a sequence of tokens: a date-time body such as              *)
(* "2024-01-15T10:30:00", an offset such as "+02:00", the letter "Z", or   *)
(* other text.  Numbers are integers; the float defaults 0.0 and 1.0 of    *)
(* the source are the numbers 0 and 1.                                     *)
(***************************************************************************)
EXTENDS Integers, Sequences, FiniteSets, TLC

VARIABLES op, arg, res, orig, trips

vars == <<op, arg, res, orig, trips>>

---------------------------------------------------------------------------
(* Bounds of the model *)

\* keys of a base mapping that an input overrides or removes
MaxKeys == 1
\* largest number used as an id or amount
MaxId == 1
\* longest `charges` list
MaxCharges == 2
\* longest token sequence handed to _parse_datetime on its own
MaxStrLen == 2
\* encode/decode round trips applied to one record
MaxTrips == 2

---------------------------------------------------------------------------
(* Python values *)

None == [t |-> "null"]
Str(s) == [t |-> "str", s |-> s]
Num(n) == [t |-> "num", n |-> n]
Bool(b) == [t |-> "bool", b |-> b]
List(l) == [t |-> "list", l |-> l]
Map(m) == [t |-> "map", m |-> m]
\* a datetime: wall-clock minutes of the day, and the UTC offset in minutes
\* when it carries tzinfo
Dt(w, a, o) == [t |-> "dt", wall |-> w, aware |-> a, off |-> o]

EmptyStr == Str(<<>>)
EmptyMap == Map(<<>>)

\* bool(x): what `not x` and `if x` test
Truthy(v) ==
    CASE v.t = "null" -> FALSE
      [] v.t = "str"  -> Len(v.s) > 0
      [] v.t = "num"  -> v.n # 0
      [] v.t = "bool" -> v.b
      [] v.t = "list" -> Len(v.l) > 0
      [] v.t = "map"  -> DOMAIN v.m # {}
      [] OTHER        -> TRUE

\* the outcome of a call: a returned value or a raised exception
Ok(v) == [ok |-> TRUE, val |-> v, err |-> "", key |-> ""]
Raise(e, k) == [ok |-> FALSE, val |-> None, err |-> e, key |-> k]

\* data.get(k, default); only a dict has .get
Get(data, k, default) ==
    IF data.t # "map" THEN Raise("AttributeError", "")
    ELSE IF k \in DOMAIN data.m THEN Ok(data.m[k]) ELSE Ok(default)

\* data.get(k) in place of data[k]: a missing key reads as None
ItemOrNone(data, k) ==
    IF data.t # "map" THEN Raise("AttributeError", "")
    ELSE IF k \in DOMAIN data.m THEN Ok(data.m[k]) ELSE Ok(None)

\* data[k]; a missing key of a dict is a KeyError, any other type of the
\* modelled values cannot be indexed by a string
Item(data, k) ==
    IF data.t # "map" THEN Raise("TypeError", "")
    ELSE IF k \in DOMAIN data.m THEN Ok(data.m[k]) ELSE Raise("KeyError", k)

\* the first raised exception of a sequence of outcomes evaluated in order
FirstFailure(rs) ==
    LET bad == {i \in DOMAIN rs : ~rs[i].ok}
    IN  rs[CHOOSE i \in bad : \A j \in bad : i <= j]

AllOk(rs) == \A i \in DOMAIN rs : rs[i].ok

---------------------------------------------------------------------------
(* datetime: str.replace, datetime.fromisoformat, datetime.isoformat *)

BodyTokens == {"2024-01-15T10:30:00", "2024-03-01T08:00:00"}
OffsetTokens == {"+00:00", "+02:00"}

WallOf(tok) == IF tok = "2024-01-15T10:30:00" THEN 630 ELSE 480
BodyOf(w) == IF w = 630 THEN "2024-01-15T10:30:00" ELSE "2024-03-01T08:00:00"
OffsetOf(tok) == IF tok = "+00:00" THEN 0 ELSE 120
OffsetTokenOf(o) == IF o = 0 THEN "+00:00" ELSE "+02:00"

\* s.replace('Z', '+00:00'): every occurrence is replaced
ReplaceZ(s) == [i \in DOMAIN s |-> IF s[i] = "Z" THEN "+00:00" ELSE s[i]]

\* datetime.fromisoformat(s): a body, then at most one numeric offset;
\* anything else is a ValueError
FromIsoFormat(s) ==
    IF Len(s) = 1 /\ s[1] \in BodyTokens
      THEN Ok(Dt(WallOf(s[1]), FALSE, 0))
    ELSE IF Len(s) = 2 /\ s[1] \in BodyTokens /\ s[2] \in OffsetTokens
      THEN Ok(Dt(WallOf(s[1]), TRUE, OffsetOf(s[2])))
    ELSE Raise("ValueError", "")

\* a formatter that never prints the offset
IsoFormatNoOffset(x) ==
    IF x.t # "dt" THEN Raise("AttributeError", "")
    ELSE Ok(Str(<<BodyOf(x.wall)>>))

\* x.isoformat(): only a datetime has it; the offset is printed when the
\* datetime carries tzinfo, in the datetime's own offset
IsoFormat(x) ==
    IF x.t # "dt" THEN Raise("AttributeError", "")
    ELSE IF x.aware THEN Ok(Str(<<BodyOf(x.wall), OffsetTokenOf(x.off)>>))
    ELSE Ok(Str(<<BodyOf(x.wall)>>))

\* dt.replace(tzinfo=timezone.utc)
ReplaceTzUtc(d) == Dt(d.wall, TRUE, 0)

\* _parse_datetime without its try/except
ParseDatetimeNoCatch(date_string) ==
    IF ~Truthy(date_string) THEN Ok(None)
    ELSE IF date_string.t = "dt" THEN Ok(date_string)
    ELSE IF date_string.t # "str" THEN Raise("AttributeError", "")
    ELSE LET r == FromIsoFormat(ReplaceZ(date_string.s))
         IN  IF ~r.ok THEN r
             ELSE IF ~r.val.aware THEN Ok(ReplaceTzUtc(r.val)) ELSE r

\* _parse_datetime(date_string)
ParseDatetime(date_string) ==
    IF ~Truthy(date_string) THEN Ok(None)
    ELSE IF date_string.t = "dt" THEN Ok(date_string)
    ELSE IF date_string.t # "str"
      \* no .replace on the value: AttributeError, caught
      THEN Ok(None)
    ELSE LET r == FromIsoFormat(ReplaceZ(date_string.s))
         IN  IF ~r.ok
               \* ValueError, caught
               THEN Ok(None)
             ELSE IF ~r.val.aware THEN Ok(ReplaceTzUtc(r.val)) ELSE r

\* _parse_datetime(data.get(k))
ParseAt(data, k) ==
    LET g == Get(data, k, None) IN IF g.ok THEN ParseDatetime(g.val) ELSE g

\* _parse_datetime(data[k]): the key is read first, a missing key is a
\* KeyError
ParseRequired(data, k) ==
    LET g == Item(data, k) IN IF g.ok THEN ParseDatetime(g.val) ELSE g

---------------------------------------------------------------------------
(* Currency, Balance, Wallet *)

\* `if data is None` in place of `if not data`: an empty mapping gives an
\* object of defaults
CurrencyFromDictNoneOnly(data) ==
    IF data = None THEN Ok(None)
    ELSE LET all == << Get(data, "identifier", EmptyStr),
                       Get(data, "name", EmptyStr),
                       Get(data, "decimals", Num(2)) >>
         IN  IF ~AllOk(all) THEN FirstFailure(all)
             ELSE Ok([t |-> "Currency", identifier |-> all[1].val,
                      name |-> all[2].val, decimals |-> all[3].val])

\* Currency.from_dict(data)
CurrencyFromDict(data) ==
    IF ~Truthy(data) THEN Ok(None)
    ELSE LET all == << Get(data, "identifier", EmptyStr),
                       Get(data, "name", EmptyStr),
                       Get(data, "decimals", Num(2)) >>
         IN  IF ~AllOk(all) THEN FirstFailure(all)
             ELSE Ok([t |-> "Currency", identifier |-> all[1].val,
                      name |-> all[2].val, decimals |-> all[3].val])

\* Balance.from_dict(data)
BalanceFromDict(data) ==
    IF ~Truthy(data) THEN Ok(None)
    ELSE LET all == << Get(data, "amount", Num(0)),
                       Get(data, "credit", Num(0)) >>
         IN  IF ~AllOk(all) THEN FirstFailure(all)
             ELSE Ok([t |-> "Balance", amount |-> all[1].val,
                      credit |-> all[2].val])

\* Balance.from_dict(data.get(k))
BalanceAt(data, k) ==
    LET g == Get(data, k, None) IN IF g.ok THEN BalanceFromDict(g.val) ELSE g

\* Currency.from_dict(data.get(k))
CurrencyAt(data, k) ==
    LET g == Get(data, k, None) IN IF g.ok THEN CurrencyFromDict(g.val) ELSE g

\* Wallet.from_dict(data)
WalletFromDict(data) ==
    LET all == << Get(data, "id", Num(0)),
                  Get(data, "ownerType", EmptyStr),
                  BalanceAt(data, "balance"),
                  CurrencyAt(data, "currency"),
                  Get(data, "status", EmptyStr) >>
    IN  IF ~AllOk(all) THEN FirstFailure(all)
        ELSE Ok([t |-> "Wallet", id |-> all[1].val, owner_type |-> all[2].val,
                 balance |-> all[3].val, currency |-> all[4].val,
                 status |-> all[5].val])

---------------------------------------------------------------------------
(* Charge *)

ChargeTimeKeys ==
    << "createdAt", "updatedAt", "startedAt", "stoppedAt",
       "cablePluggedInAt", "fullyChargedAt", "failedAt", "timeoutAt" >>

ChargeKeys == {"id", "state"} \cup {ChargeTimeKeys[i] : i \in DOMAIN ChargeTimeKeys}

\* Charge.from_dict(data)
ChargeFromDict(data) ==
    LET all == << Item(data, "id"), Get(data, "state", EmptyStr) >>
               \o [i \in DOMAIN ChargeTimeKeys |->
                     ParseAt(data, ChargeTimeKeys[i])]
    IN  IF ~AllOk(all) THEN FirstFailure(all)
        ELSE Ok([t |-> "Charge", id |-> all[1].val, state |-> all[2].val,
                 created_at |-> all[3].val, updated_at |-> all[4].val,
                 started_at |-> all[5].val, stopped_at |-> all[6].val,
                 cable_plugged_in_at |-> all[7].val,
                 fully_charged_at |-> all[8].val,
                 failed_at |-> all[9].val, timeout_at |-> all[10].val])

\* x.isoformat() if x else None
IsoOrNone(x) == IF Truthy(x) THEN IsoFormat(x) ELSE Ok(None)

\* Charge.to_dict(self)
ChargeToDict(self) ==
    LET all == << IsoOrNone(self.created_at), IsoOrNone(self.updated_at),
                  IsoOrNone(self.started_at), IsoOrNone(self.stopped_at),
                  IsoOrNone(self.cable_plugged_in_at),
                  IsoOrNone(self.fully_charged_at),
                  IsoOrNone(self.failed_at), IsoOrNone(self.timeout_at) >>
    IN  IF ~AllOk(all) THEN FirstFailure(all)
        ELSE Ok(Map([id |-> self.id, state |-> self.state,
                     createdAt |-> all[1].val, updatedAt |-> all[2].val,
                     startedAt |-> all[3].val, stoppedAt |-> all[4].val,
                     cablePluggedInAt |-> all[5].val,
                     fullyChargedAt |-> all[6].val,
                     failedAt |-> all[7].val, timeoutAt |-> all[8].val]))

---------------------------------------------------------------------------
(* ChargePoint *)

\* the elements a for-loop over v visits: the items of a list, the
\* characters of a str, the keys of a dict; other values are not iterable
Iterate(v) ==
    CASE v.t = "list" -> Ok(List(v.l))
      [] v.t = "str"  -> Ok(List([i \in DOMAIN v.s |-> Str(<<v.s[i]>>)]))
      [] v.t = "map"  ->
           LET n == Cardinality(DOMAIN v.m)
               order == CHOOSE f \in [1..n -> DOMAIN v.m] :
                            \A i, j \in 1..n : i # j => f[i] # f[j]
           IN  Ok(List([i \in 1..n |-> Str(<<order[i]>>)]))
      [] OTHER        -> Raise("TypeError", "")

\* the charges decoded in reverse order
DecodeChargesReversed(charges_data) ==
    IF ~Truthy(charges_data) THEN Ok(List(<<>>))
    ELSE LET it == Iterate(charges_data)
         IN  IF ~it.ok THEN it
             ELSE LET each == [i \in DOMAIN it.val.l |-> ChargeFromDict(it.val.l[i])]
                  IN  IF ~AllOk(each) THEN FirstFailure(each)
                      ELSE Ok(List([i \in DOMAIN each |->
                                      each[Len(each) + 1 - i].val]))

\* [Charge.from_dict(charge) for charge in charges_data] if charges_data else []
DecodeCharges(charges_data) ==
    IF ~Truthy(charges_data) THEN Ok(List(<<>>))
    ELSE LET it == Iterate(charges_data)
         IN  IF ~it.ok THEN it
             ELSE LET each == [i \in DOMAIN it.val.l |-> ChargeFromDict(it.val.l[i])]
                  IN  IF ~AllOk(each) THEN FirstFailure(each)
                      ELSE Ok(List([i \in DOMAIN each |-> each[i].val]))

\* ChargePoint.from_dict(data)
ChargePointFromDict(data) ==
    LET charges_data == Get(data, "charges", List(<<>>))
        all == << IF charges_data.ok THEN DecodeCharges(charges_data.val)
                                     ELSE charges_data,
                  Item(data, "id"),
                  Get(data, "name", EmptyStr),
                  Get(data, "serialNumber", None),
                  Get(data, "type", EmptyStr),
                  Get(data, "state", EmptyStr),
                  Get(data, "visibility", EmptyStr),
                  Get(data, "lastMeterReadingKwh", Num(0)),
                  Get(data, "brandName", EmptyStr),
                  Get(data, "modelName", EmptyStr),
                  Get(data, "firmwareVersion", EmptyStr),
                  Get(data, "cablePluggedIn", Bool(FALSE)) >>
    IN  IF ~AllOk(all) THEN FirstFailure(all)
        ELSE Ok([t |-> "ChargePoint", id |-> all[2].val, name |-> all[3].val,
                 serial_number |-> all[4].val, type |-> all[5].val,
                 state |-> all[6].val, visibility |-> all[7].val,
                 last_meter_reading_kwh |-> all[8].val,
                 brand_name |-> all[9].val, model_name |-> all[10].val,
                 firmware_version |-> all[11].val,
                 cable_plugged_in |-> all[12].val, charges |-> all[1].val])

---------------------------------------------------------------------------
(* WalletTransaction *)

\* WalletTransaction.from_dict(data)
WalletTransactionFromDict(data) ==
    LET all == << Item(data, "id"),
                  Get(data, "state", EmptyStr),
                  Get(data, "summary", EmptyStr),
                  Get(data, "note", None),
                  Get(data, "fromAmount", Num(0)),
                  CurrencyAt(data, "fromCurrency"),
                  Get(data, "fromWalletId", None),
                  Get(data, "toAmount", Num(0)),
                  CurrencyAt(data, "toCurrency"),
                  Get(data, "toWalletId", None),
                  Get(data, "chargeId", None),
                  Get(data, "exchangeRate", Num(1)),
                  ParseAt(data, "createdAt"),
                  ParseAt(data, "updatedAt"),
                  ParseAt(data, "completedAt") >>
    IN  IF ~AllOk(all) THEN FirstFailure(all)
        ELSE Ok([t |-> "WalletTransaction", id |-> all[1].val,
                 state |-> all[2].val, summary |-> all[3].val,
                 note |-> all[4].val, from_amount |-> all[5].val,
                 from_currency |-> all[6].val, from_wallet_id |-> all[7].val,
                 to_amount |-> all[8].val, to_currency |-> all[9].val,
                 to_wallet_id |-> all[10].val, charge_id |-> all[11].val,
                 exchange_rate |-> all[12].val, created_at |-> all[13].val,
                 updated_at |-> all[14].val, completed_at |-> all[15].val])

\* {"identifier": c.identifier, "name": c.name, "decimals": c.decimals}
\* if c else None
CurrencyToDict(c) ==
    IF ~Truthy(c) THEN Ok(None)
    ELSE IF c.t # "Currency" THEN Raise("AttributeError", "")
    ELSE Ok(Map([identifier |-> c.identifier, name |-> c.name,
                 decimals |-> c.decimals]))

\* WalletTransaction.to_dict(self)
WalletTransactionToDict(self) ==
    LET all == << CurrencyToDict(self.from_currency),
                  CurrencyToDict(self.to_currency),
                  IsoOrNone(self.created_at), IsoOrNone(self.updated_at),
                  IsoOrNone(self.completed_at) >>
    IN  IF ~AllOk(all) THEN FirstFailure(all)
        ELSE Ok(Map([id |-> self.id, state |-> self.state,
                     summary |-> self.summary, note |-> self.note,
                     fromAmount |-> self.from_amount,
                     fromCurrency |-> all[1].val,
                     fromWalletId |-> self.from_wallet_id,
                     toAmount |-> self.to_amount,
                     toCurrency |-> all[2].val,
                     toWalletId |-> self.to_wallet_id,
                     chargeId |-> self.charge_id,
                     exchangeRate |-> self.exchange_rate,
                     createdAt |-> all[3].val, updatedAt |-> all[4].val,
                     completedAt |-> all[5].val]))

---------------------------------------------------------------------------
(* TokenResponse *)

\* TokenResponse.from_dict(data)
TokenResponseFromDict(data) ==
    LET all == << Item(data, "accessToken"),
                  ParseRequired(data, "accessTokenExpirationDate"),
                  Item(data, "refreshToken"),
                  ParseRequired(data, "refreshTokenExpirationDate"),
                  Get(data, "userId", None) >>
    IN  IF ~AllOk(all) THEN FirstFailure(all)
        ELSE Ok([t |-> "TokenResponse", access_token |-> all[1].val,
                 access_token_expiration_date |-> all[2].val,
                 refresh_token |-> all[3].val,
                 refresh_token_expiration_date |-> all[4].val,
                 user_id |-> all[5].val])

---------------------------------------------------------------------------
(* Inputs: JSON-like values of every kind, and already-typed datetimes *)

Body1 == "2024-01-15T10:30:00"

Nums == {Num(i) : i \in 0..MaxId}

TimeStrings ==
    { Str(<<Body1>>), Str(<<Body1, "Z">>), Str(<<Body1, "+00:00">>),
      Str(<<Body1, "+02:00">>) }

Datetimes ==
    { Dt(WallOf(Body1), FALSE, 0), Dt(WallOf(Body1), TRUE, 0),
      Dt(WallOf(Body1), TRUE, OffsetOf("+02:00")) }

FullCurrency ==
    Map([identifier |-> Str(<<"DKK">>), name |-> Str(<<"Danish Krone">>),
         decimals |-> Num(0)])

FullBalance == Map([amount |-> Num(1), credit |-> Num(0)])

Values ==
    {None, EmptyStr, Str(<<"not-a-date">>), Bool(TRUE), Bool(FALSE),
     List(<<>>), List(<<Num(1)>>), EmptyMap, FullCurrency,
     Map([identifier |-> Str(<<"EUR">>)])}
    \cup TimeStrings \cup Nums \cup Datetimes

\* token sequences of length at most MaxStrLen
Tokens == BodyTokens \cup OffsetTokens \cup {"Z", "not-a-date"}
TokenStrings == UNION {{Str(s) : s \in [1..n -> Tokens]} : n \in 0..MaxStrLen}

\* a key of a mapping that an input leaves out
Absent == [t |-> "absent"]

\* the sets of at most MaxKeys keys of K
KeySets(K) == {T \in SUBSET K : Cardinality(T) <= MaxKeys}

\* elements of a `charges` list: Charge mappings with and without id, and
\* a value that is no mapping
ChargeElems ==
    { Map([id |-> Num(1)]),
      Map([id |-> Num(0), state |-> Str(<<"charging">>),
           startedAt |-> Str(<<Body1, "Z">>)]),
      Map([state |-> Str(<<"charging">>)]),
      Str(<<"not-a-date">>) }

ChargeLists == UNION {{List(l) : l \in [1..n -> ChargeElems]} : n \in 0..MaxCharges}

\* the values a key may hold besides Values: lists of charges under
\* `charges`, balances under `balance`
Extra(k) ==
    CASE k = "charges" -> ChargeLists
      [] k = "balance" -> {FullBalance, Map([amount |-> Num(1)])}
      [] OTHER -> {}

\* for each key of S, the key removed or set to a value
Changes(S) ==
    {f \in [S -> Values \cup UNION {Extra(k) : k \in S} \cup {Absent}] :
       \A k \in S : f[k] \in Values \cup Extra(k) \cup {Absent}}

\* the mapping `base` with the keys of DOMAIN f removed or set as f says
Variant(base, f) ==
    Map([k \in ((DOMAIN base \ DOMAIN f) \cup {j \in DOMAIN f : f[j] # Absent}) |->
           IF k \in DOMAIN f THEN f[k] ELSE base[k]])

ChargeBases ==
    { <<>>,
      [id |-> Num(1), state |-> Str(<<"charging">>),
       createdAt |-> Str(<<Body1, "Z">>), updatedAt |-> Str(<<Body1, "Z">>),
       startedAt |-> Str(<<Body1, "Z">>), stoppedAt |-> Str(<<Body1, "Z">>),
       cablePluggedInAt |-> Str(<<Body1, "Z">>),
       fullyChargedAt |-> Str(<<Body1, "Z">>),
       failedAt |-> Str(<<Body1, "Z">>), timeoutAt |-> Str(<<Body1, "Z">>)],
      [id |-> Num(1), startedAt |-> Str(<<Body1, "+02:00">>)] }

ChargePointKeys ==
    {"id", "name", "serialNumber", "type", "state", "visibility",
     "lastMeterReadingKwh", "brandName", "modelName", "firmwareVersion",
     "cablePluggedIn", "charges"}

ChargePointBases ==
    { <<>>,
      [id |-> Num(1), name |-> Str(<<"Home">>), serialNumber |-> Str(<<"SN">>),
       type |-> Str(<<"ac">>), state |-> Str(<<"available">>),
       visibility |-> Str(<<"private">>), lastMeterReadingKwh |-> Num(1),
       brandName |-> Str(<<"B">>), modelName |-> Str(<<"M">>),
       firmwareVersion |-> Str(<<"1.0">>), cablePluggedIn |-> Bool(TRUE),
       charges |-> List(<<Map([id |-> Num(1)]), Map([id |-> Num(0)])>>)] }

WalletTransactionKeys ==
    {"id", "state", "summary", "note", "fromAmount", "fromCurrency",
     "fromWalletId", "toAmount", "toCurrency", "toWalletId", "chargeId",
     "exchangeRate", "createdAt", "updatedAt", "completedAt"}

WalletTransactionBases ==
    { <<>>,
      [id |-> Num(1), state |-> Str(<<"complete">>), summary |-> Str(<<"s">>),
       note |-> Str(<<"n">>), fromAmount |-> Num(1),
       fromCurrency |-> FullCurrency, fromWalletId |-> Num(1),
       toAmount |-> Num(1), toCurrency |-> Map([identifier |-> Str(<<"EUR">>)]),
       toWalletId |-> Num(0), chargeId |-> Num(1), exchangeRate |-> Num(1),
       createdAt |-> Str(<<Body1, "+02:00">>),
       updatedAt |-> Dt(WallOf(Body1), FALSE, 0),
       completedAt |-> Str(<<Body1>>)] }

CurrencyKeys == {"identifier", "name", "decimals"}
BalanceKeys == {"amount", "credit"}

CurrencyBases == {<<>>, FullCurrency.m}
BalanceBases == {<<>>, FullBalance.m}

WalletKeys == {"id", "ownerType", "balance", "currency", "status"}

WalletBases ==
    { <<>>,
      [id |-> Num(1), ownerType |-> Str(<<"user">>), balance |-> FullBalance,
       currency |-> FullCurrency, status |-> Str(<<"active">>)] }

TokenKeys ==
    {"accessToken", "accessTokenExpirationDate", "refreshToken",
     "refreshTokenExpirationDate", "userId"}

TokenBases ==
    { <<>>,
      [accessToken |-> Str(<<"a">>),
       accessTokenExpirationDate |-> Str(<<Body1, "Z">>),
       refreshToken |-> Str(<<"r">>),
       refreshTokenExpirationDate |-> Str(<<Body1, "+02:00">>),
       userId |-> Str(<<"u">>)] }

ParseInputs == Values \cup TokenStrings

---------------------------------------------------------------------------
(* The state machine: one action per function of the module.  op is the    *)
(* function called last, arg its argument and res its outcome; orig is the *)
(* record the last to_dict encoded and trips counts the decodings of an    *)
(* encoder's output since the record was first decoded.                    *)

Init ==
    /\ op = "init"
    /\ arg = None
    /\ res = Ok(None)
    /\ orig = None
    /\ trips = 0

\* a call made by the caller, which holds no result of an earlier call
Call(name, a, r) ==
    /\ op = "init"
    /\ op' = name
    /\ arg' = a
    /\ res' = r
    /\ orig' = None
    /\ trips' = 0

\* the encoder runs on a record the decoder returned; r is its outcome
Encode(decoder, encoder, r) ==
    /\ op = decoder
    /\ res.ok
    /\ op' = encoder
    /\ arg' = res.val
    /\ res' = r
    /\ orig' = res.val
    /\ UNCHANGED trips

\* the decoder runs on the mapping the encoder returned; r is its outcome
Redecode(encoder, decoder, r) ==
    /\ op = encoder
    /\ res.ok
    /\ trips < MaxTrips
    /\ op' = decoder
    /\ arg' = res.val
    /\ res' = r
    /\ trips' = trips + 1
    /\ UNCHANGED orig

\* the decoders are called on a base mapping changed in at most MaxKeys keys

CallParseDatetime ==
    /\ op = "init"
    /\ \E v \in ParseInputs : Call("_parse_datetime", v, ParseDatetime(v))

\* Currency.from_dict on a value of any kind, or on a mapping
CallCurrencyFromDict ==
    /\ op = "init"
    /\ \/ \E v \in Values : Call("Currency.from_dict", v, CurrencyFromDict(v))
       \/ \E b \in CurrencyBases : \E S \in KeySets(CurrencyKeys) : \E f \in Changes(S) :
             Call("Currency.from_dict", Variant(b, f), CurrencyFromDict(Variant(b, f)))

\* Balance.from_dict on a value of any kind, or on a mapping
CallBalanceFromDict ==
    /\ op = "init"
    /\ \/ \E v \in Values : Call("Balance.from_dict", v, BalanceFromDict(v))
       \/ \E b \in BalanceBases : \E S \in KeySets(BalanceKeys) : \E f \in Changes(S) :
             Call("Balance.from_dict", Variant(b, f), BalanceFromDict(Variant(b, f)))

CallWalletFromDict ==
    /\ op = "init"
    /\ \E b \in WalletBases : \E S \in KeySets(WalletKeys) : \E f \in Changes(S) :
          Call("Wallet.from_dict", Variant(b, f), WalletFromDict(Variant(b, f)))

CallChargeFromDict ==
    /\ op = "init"
    /\ \E b \in ChargeBases : \E S \in KeySets(ChargeKeys) : \E f \in Changes(S) :
          Call("Charge.from_dict", Variant(b, f), ChargeFromDict(Variant(b, f)))

CallChargeToDict ==
    Encode("Charge.from_dict", "Charge.to_dict", ChargeToDict(res.val))

RecallChargeFromDict ==
    Redecode("Charge.to_dict", "Charge.from_dict", ChargeFromDict(res.val))

CallChargePointFromDict ==
    /\ op = "init"
    /\ \E b \in ChargePointBases : \E S \in KeySets(ChargePointKeys) : \E f \in Changes(S) :
          Call("ChargePoint.from_dict", Variant(b, f), ChargePointFromDict(Variant(b, f)))

CallWalletTransactionFromDict ==
    /\ op = "init"
    /\ \E b \in WalletTransactionBases : \E S \in KeySets(WalletTransactionKeys) : \E f \in Changes(S) :
          Call("WalletTransaction.from_dict", Variant(b, f), WalletTransactionFromDict(Variant(b, f)))

CallWalletTransactionToDict ==
    Encode("WalletTransaction.from_dict", "WalletTransaction.to_dict",
           WalletTransactionToDict(res.val))

RecallWalletTransactionFromDict ==
    Redecode("WalletTransaction.to_dict", "WalletTransaction.from_dict",
             WalletTransactionFromDict(res.val))

CallTokenResponseFromDict ==
    /\ op = "init"
    /\ \E b \in TokenBases : \E S \in KeySets(TokenKeys) : \E f \in Changes(S) :
          Call("TokenResponse.from_dict", Variant(b, f), TokenResponseFromDict(Variant(b, f)))

\* the caller drops the result; the next call starts afresh
Return ==
    /\ op # "init"
    /\ op' = "init"
    /\ arg' = None
    /\ res' = Ok(None)
    /\ orig' = None
    /\ trips' = 0

Next ==
    \/ Return
    \/ CallParseDatetime
    \/ CallCurrencyFromDict
    \/ CallBalanceFromDict
    \/ CallWalletFromDict
    \/ CallChargeFromDict
    \/ CallChargeToDict
    \/ RecallChargeFromDict
    \/ CallChargePointFromDict
    \/ CallWalletTransactionFromDict
    \/ CallWalletTransactionToDict
    \/ RecallWalletTransactionFromDict
    \/ CallTokenResponseFromDict

Spec == Init /\ [][Next]_vars

---------------------------------------------------------------------------
(* Vocabulary of the properties *)

Has(d, k) == d.t = "map" /\ k \in DOMAIN d.m

\* the value a mapping holds under k, `default` when the key is missing
Field(d, k, default) == IF k \in DOMAIN d.m THEN d.m[k] ELSE default

IdDecoders ==
    {"Charge.from_dict", "ChargePoint.from_dict", "WalletTransaction.from_dict"}

Encoders == {"Charge.to_dict", "WalletTransaction.to_dict"}

\* an ISO-8601 date-time string: a body, then nothing, "Z" or an offset
IsIsoString(v) ==
    /\ v.t = "str"
    /\ Len(v.s) \in {1, 2}
    /\ v.s[1] \in BodyTokens
    /\ Len(v.s) = 2 => v.s[2] \in OffsetTokens \cup {"Z"}

\* a JSON-like value that is no timestamp: null, a number, a boolean, a
\* list, a mapping, or a string that is no ISO-8601 date-time
NotATimestamp(v) ==
    \/ v.t \in {"null", "num", "bool", "list", "map"}
    \/ v.t = "str" /\ ~IsIsoString(v)

\* a nested value object on the wire: null or a mapping
IsObjectOrNull(v) == v.t \in {"null", "map"}

\* a list of mappings
IsListOfMappings(v) == v.t = "list" /\ \A i \in DOMAIN v.l : v.l[i].t = "map"

CurrenciesWellTyped(d) ==
    \A k \in {"fromCurrency", "toCurrency"} : Has(d, k) => IsObjectOrNull(d.m[k])

\* the input is a mapping whose nested objects have the wire's types
WellTyped(name, d) ==
    CASE name = "ChargePoint.from_dict" ->
           Has(d, "charges") => d.m["charges"] = None \/ IsListOfMappings(d.m["charges"])
      [] name = "WalletTransaction.from_dict" -> CurrenciesWellTyped(d)
      [] OTHER -> TRUE

\* every element of the `charges` list carries an id
ChargesHaveId(d) ==
    Has(d, "charges") /\ d.m["charges"].t = "list"
        => \A i \in DOMAIN d.m["charges"].l : Has(d.m["charges"].l[i], "id")

\* the instant field of a record that is decoded from, and encoded to, key k
TimeField(rec, k) ==
    CASE k = "createdAt" -> rec.created_at
      [] k = "updatedAt" -> rec.updated_at
      [] k = "startedAt" -> rec.started_at
      [] k = "stoppedAt" -> rec.stopped_at
      [] k = "cablePluggedInAt" -> rec.cable_plugged_in_at
      [] k = "fullyChargedAt" -> rec.fully_charged_at
      [] k = "failedAt" -> rec.failed_at
      [] k = "timeoutAt" -> rec.timeout_at
      [] k = "completedAt" -> rec.completed_at

TimeKeys(name) ==
    IF name \in {"Charge.from_dict", "Charge.to_dict"}
      THEN {ChargeTimeKeys[i] : i \in DOMAIN ChargeTimeKeys}
      ELSE {"createdAt", "updatedAt", "completedAt"}

---------------------------------------------------------------------------
(* C1 *)

---------------------------------------------------------------------------
(* C2 *)

TokenDateKeys == {"accessTokenExpirationDate", "refreshTokenExpirationDate"}

\* C2: TokenResponse.from_dict fails when one of the four required keys is
\* missing and when an expiration date is present but is no timestamp, so
\* that a returned TokenResponse holds an instant in both expiration fields.
C2_TokenDatesRequired ==
    op = "TokenResponse.from_dict" =>
      /\ (\E k \in TokenDateKeys \cup {"accessToken", "refreshToken"} : ~Has(arg, k))
            => ~res.ok
      /\ (\E k \in TokenDateKeys : Has(arg, k) /\ NotATimestamp(arg.m[k]))
            => ~res.ok
      /\ res.ok => /\ res.val.access_token_expiration_date.t = "dt"
                   /\ res.val.refresh_token_expiration_date.t = "dt"

---------------------------------------------------------------------------
(* C3 *)

\* C3: _parse_datetime never raises and returns None for every JSON-like
\* value that is no timestamp; such a value under a timestamp key never
\* makes Charge.from_dict or WalletTransaction.from_dict fail, and the
\* field decoded from it is None.
C3_ParseNeverRaises ==
    /\ op = "_parse_datetime" =>
          res.ok /\ (NotATimestamp(arg) => res.val = None)
    /\ (op \in {"Charge.from_dict", "WalletTransaction.from_dict"}
          /\ Has(arg, "id") /\ WellTyped(op, arg)) =>
          /\ res.ok
          /\ \A k \in TimeKeys(op) :
               (Has(arg, k) /\ NotATimestamp(arg.m[k])) => TimeField(res.val, k) = None

\* a Charge decoded from a mapping whose startedAt is a number
C3_Witness ==
    /\ op = "Charge.from_dict"
    /\ Has(arg, "startedAt")
    /\ arg.m["startedAt"].t = "num" /\ Truthy(arg.m["startedAt"])
    /\ res.ok /\ res.val.started_at = None

---------------------------------------------------------------------------
(* C4 *)

\* C4: every instant _parse_datetime returns carries timezone information;
\* a string ending in Z gives the instant of the same string ending in
\* +00:00, and a string without offset gives its wall-clock time in UTC.
C4_AlwaysAware ==
    op = "_parse_datetime" =>
      /\ (res.ok /\ res.val # None) => res.val.aware
      /\ (IsIsoString(arg) /\ (Len(arg.s) = 1 \/ arg.s[2] \in {"Z", "+00:00"}))
            => res.ok /\ res.val = Dt(WallOf(arg.s[1]), TRUE, 0)

---------------------------------------------------------------------------
(* C5 *)

\* an instant without timezone information stamped as UTC
StampUtc(v) == IF v.t = "dt" /\ ~v.aware THEN Dt(v.wall, TRUE, 0) ELSE v

StampedCharge(x) ==
    [x EXCEPT !.created_at = StampUtc(@), !.updated_at = StampUtc(@),
              !.started_at = StampUtc(@), !.stopped_at = StampUtc(@),
              !.cable_plugged_in_at = StampUtc(@),
              !.fully_charged_at = StampUtc(@), !.failed_at = StampUtc(@),
              !.timeout_at = StampUtc(@)]

StampedWalletTransaction(x) ==
    [x EXCEPT !.created_at = StampUtc(@), !.updated_at = StampUtc(@),
              !.completed_at = StampUtc(@)]

\* C5: to_dict succeeds on every record from_dict returned, and decoding
\* its output gives the record back, field by field, except that instants
\* without timezone information come back stamped as UTC; from the second
\* round trip on the record comes back unchanged.
C5_RoundTrip ==
    /\ op \in Encoders => res.ok
    /\ (op = "Charge.from_dict" /\ trips >= 1) =>
          /\ res.ok
          /\ res.val = StampedCharge(orig)
          /\ trips >= 2 => res.val = orig
    /\ (op = "WalletTransaction.from_dict" /\ trips >= 1) =>
          /\ res.ok
          /\ res.val = StampedWalletTransaction(orig)
          /\ trips >= 2 => res.val = orig

\* a WalletTransaction with a currency and an instant without timezone
\* information, after its first round trip
C5_Witness ==
    /\ op = "WalletTransaction.from_dict"
    /\ trips = 1
    /\ res.ok
    /\ res.val.from_currency # None
    /\ res.val.created_at.t = "dt" /\ res.val.created_at.off # 0
    /\ res.val # orig

---------------------------------------------------------------------------
(* C6 *)

\* C6: to_dict returns a mapping with exactly the decoder's keys, in which
\* an instant field that holds a value is an ISO-8601 string in UTC with an
\* explicit offset, and one that holds none is null.
C6_EncodesUtc ==
    (op \in Encoders /\ res.ok) =>
      /\ DOMAIN res.val.m =
           IF op = "Charge.to_dict" THEN ChargeKeys ELSE WalletTransactionKeys
      /\ \A k \in TimeKeys(op) :
           IF TimeField(arg, k) = None
             THEN res.val.m[k] = None
             ELSE /\ IsIsoString(res.val.m[k])
                  /\ Len(res.val.m[k].s) = 2
                  /\ res.val.m[k].s[2] = "+00:00"

---------------------------------------------------------------------------
(* C7 *)

\* C7: Wallet.from_dict returns a Wallet for every mapping, whatever value
\* each key holds, and a missing key is replaced by its default.
C7_WalletTotal ==
    op = "Wallet.from_dict" =>
      /\ res.ok
      /\ res.val.id = Field(arg, "id", Num(0))
      /\ res.val.owner_type = Field(arg, "ownerType", EmptyStr)
      /\ res.val.status = Field(arg, "status", EmptyStr)
      /\ ~Has(arg, "balance") => res.val.balance = None
      /\ ~Has(arg, "currency") => res.val.currency = None

---------------------------------------------------------------------------
(* C8 *)

\* C8: a required key that holds a value of the wrong type is rejected: an
\* id that is no number, or a token that is no string, makes decoding fail.
C8_WrongTypeRejected ==
    /\ (op \in IdDecoders /\ Has(arg, "id") /\ arg.m["id"].t # "num") => ~res.ok
    /\ (op = "TokenResponse.from_dict"
          /\ \E k \in {"accessToken", "refreshToken"} :
               Has(arg, k) /\ arg.m[k].t # "str") => ~res.ok

---------------------------------------------------------------------------
(* C9 *)

\* the Currency a non-empty mapping describes
CurrencyOf(d) ==
    [t |-> "Currency", identifier |-> Field(d, "identifier", EmptyStr),
     name |-> Field(d, "name", EmptyStr), decimals |-> Field(d, "decimals", Num(2))]

\* the Balance a non-empty mapping describes
BalanceOf(d) ==
    [t |-> "Balance", amount |-> Field(d, "amount", Num(0)),
     credit |-> Field(d, "credit", Num(0))]

\* the Currency under key k of d: absent when the key is missing, null or
\* an empty mapping
ExpectedCurrency(d, k) ==
    LET v == Field(d, k, None)
    IN  IF v = None \/ v = EmptyMap THEN None ELSE CurrencyOf(v)

\* the Balance under key k of d, likewise
ExpectedBalance(d, k) ==
    LET v == Field(d, k, None)
    IN  IF v = None \/ v = EmptyMap THEN None ELSE BalanceOf(v)

\* C9: Currency.from_dict and Balance.from_dict return None exactly for
\* None and the empty mapping, and for a non-empty mapping an object whose
\* fields are the mapping's values, with the default for a missing key; the
\* same holds of the value objects embedded in Wallet and WalletTransaction.
C9_ValueObjects ==
    /\ (op = "Currency.from_dict" /\ IsObjectOrNull(arg)) =>
          /\ res.ok
          /\ res.val = None <=> (arg = None \/ arg = EmptyMap)
          /\ res.val # None => res.val = CurrencyOf(arg)
    /\ (op = "Balance.from_dict" /\ IsObjectOrNull(arg)) =>
          /\ res.ok
          /\ res.val = None <=> (arg = None \/ arg = EmptyMap)
          /\ res.val # None => res.val = BalanceOf(arg)
    /\ (op = "Wallet.from_dict" /\ res.ok) =>
          /\ IsObjectOrNull(Field(arg, "balance", None))
                => res.val.balance = ExpectedBalance(arg, "balance")
          /\ IsObjectOrNull(Field(arg, "currency", None))
                => res.val.currency = ExpectedCurrency(arg, "currency")
    /\ (op = "WalletTransaction.from_dict" /\ res.ok) =>
          /\ IsObjectOrNull(Field(arg, "fromCurrency", None))
                => res.val.from_currency = ExpectedCurrency(arg, "fromCurrency")
          /\ IsObjectOrNull(Field(arg, "toCurrency", None))
                => res.val.to_currency = ExpectedCurrency(arg, "toCurrency")

\* a Currency decoded from a mapping that has a name but no decimals
C9_Witness ==
    /\ op = "Currency.from_dict"
    /\ Has(arg, "name") /\ ~Has(arg, "decimals")
    /\ res.ok /\ res.val # None /\ res.val.decimals = Num(2)

---------------------------------------------------------------------------
(* C10 *)

\* C10: ChargePoint.from_dict gives the empty sequence of charges when the
\* key `charges` is missing or holds an empty list; for a list of n >= 1
\* Charge mappings it gives the n records Charge.from_dict returns for the
\* elements, in the input's order, and it fails with the KeyError of `id`
\* when an element has no id.
C10_ChargesInOrder ==
    op = "ChargePoint.from_dict" =>
      /\ (Has(arg, "id") /\ (~Has(arg, "charges") \/ arg.m["charges"] = List(<<>>)))
            => res.ok /\ res.val.charges = List(<<>>)
      /\ (Has(arg, "charges") /\ IsListOfMappings(arg.m["charges"])
            /\ Truthy(arg.m["charges"])) =>
            LET elems == arg.m["charges"].l
            IN  IF \A i \in DOMAIN elems : Has(elems[i], "id")
                  THEN Has(arg, "id") =>
                         /\ res.ok
                         /\ Len(res.val.charges.l) = Len(elems)
                         /\ \A i \in DOMAIN elems :
                              res.val.charges.l[i] = ChargeFromDict(elems[i]).val
                  ELSE ~res.ok /\ res.err = "KeyError" /\ res.key = "id"

\* a ChargePoint with two different charges
C10_Witness ==
    /\ op = "ChargePoint.from_dict"
    /\ res.ok
    /\ Len(res.val.charges.l) = 2
    /\ res.val.charges.l[1] # res.val.charges.l[2]

====
